---- MODULE Spec2Model ----
(***************************************************************************)
(* Verification model of soccer-news-infra.                                *)
(*                                                                         *)
(*  - the browser Lambda (src/src/lambdas/browser/index.mjs): one handler  *)
(*    invocation per element of DOMAIN pc, each step of the handler that   *)
(*    awaits a renderer call is one action;                                *)
(*  - the soccer-news Lambda (handler of lambda/index.py as recorded in    *)
(*    src/prompts/prompt1_transcript.md, lines 1851-2025): environment     *)
(*    checks, Assistants API run with poll loop, Chat Completions          *)
(*    fallback, assistant deletion, response parsing, SNS publish.         *)
(***************************************************************************)
EXTENDS Integers, Sequences, FiniteSets, TLC

VARIABLES
    \* ---- browser Lambda, one entry per handler invocation ----
    event,      \* the request: optional fields are <<>> (absent) or <<v>>
    pc,         \* position of the invocation in the handler
    browser,    \* the handler's `browser` variable: NullBrowser or a handle
    error,      \* the `error` caught by the catch block (NoError before)
    finalUrl,   \* const finalUrl = page.url()
    html,       \* the extracted markup, a sequence of parts
    matched,    \* history: the elements querySelectorAll found, once page.evaluate resolved
    waited,     \* milliseconds spent in the settle-delay timer
    response,   \* value returned by the handler (NoResponse before return)
    calls,      \* history: renderer calls made by the invocation, in order
    \* ---- renderer (puppeteer / chromium), shared by all invocations ----
    sessions,   \* sessions[h]: the browser process behind handle h
    \* ---- soccer-news Lambda (one invocation) ----
    environ,               \* os.environ: which of the two variables are set
    gpc,                   \* position of the invocation in the handler
    now,                   \* wall clock, ms since the invocation started
    start_time,            \* start_time = time.time()
    max_wait_time,         \* the poll budget, ms
    assistant_id,          \* None (Absent) or the id of the created assistant
    run_status,            \* run.status as last returned by the API
    messages,              \* messages.data as returned by messages.list
    notification_content,  \* None (Absent) or Some(text)
    primary_exc,           \* the exception caught at `except Exception as e` (fallback)
    pending,               \* the exception propagating out of the inner try statement
    headline,
    description,
    message,
    published,             \* history: sns_client.publish calls, in order
    count,                 \* history: number of calls per OpenAI endpoint
    result,                \* value returned by the handler (NoResult before)
    raised,                \* exception raised to the caller (NoExc before)
    thrown,                \* history: the OpenAI endpoints whose call threw
    fallback_response,     \* history: what chat.completions.create returned, if it returned
    \* ---- EventBridge rule SoccerNewsSchedule of the deployed stack ----
    utc,                   \* EventBridge's clock: day, hour, minute (UTC)
    fired,                 \* history: number of times the rule's schedule matched
    invoked                \* history: number of invocations of SoccerNewsLambda by the rule

bvars == <<event, pc, browser, error, finalUrl, html, matched, waited, response, calls, sessions>>

svars == <<utc, fired, invoked>>

gvars == <<environ, gpc, now, start_time, max_wait_time, assistant_id, run_status, messages,
           notification_content, primary_exc, pending, headline, description, message,
           published, count, result, raised, thrown, fallback_response>>

vars == <<bvars, gvars, svars>>

\* ----------------------------------------------------------------------
\* Values
\* ----------------------------------------------------------------------
Absent == <<>>
Some(v) == <<v>>

NullBrowser == 0
NoError == [step |-> "none", at |-> 0]
NoResponse == [statusCode |-> 0]
NoUrl == ""
\* the request of an invocation whose payload is the JSON value null
NullEvent == [null |-> TRUE]
\* reading a property of null (lines 39, 181)
TypeError == [step |-> "TypeError", at |-> 0]

MissingUrlMessage == "Missing required parameter: url"
DefaultWaitUntil == "networkidle0"
DefaultTimeout == 60000
DefaultDelay == 2000
SelectorTimeout == 10000

\* JavaScript truthiness of an optional string / optional number
TruthyStr(o) == o # Absent /\ o[1] # ""
TruthyNum(o) == o # Absent /\ o[1] # 0
\* a || d
OrDefault(o, truthy, d) == IF truthy THEN o[1] ELSE d

\* `!event.url` with the empty string let through (=== undefined)
MissingUrl_OnlyAbsent(e) == e.url = Absent
\* if (!event.url)
MissingUrl(e) == ~TruthyStr(e.url)

\* const delay = event.delay || 2000
DelayOf(e) == OrDefault(e.delay, TruthyNum(e.delay), DefaultDelay)
\* const timeout = event.timeout || 60000
TimeoutOf(e) == OrDefault(e.timeout, TruthyNum(e.timeout), DefaultTimeout)
\* const waitUntil = event.waitUntil || "networkidle0"
WaitUntilOf(e) == OrDefault(e.waitUntil, TruthyStr(e.waitUntil), DefaultWaitUntil)

\* any operation tag taken for find_classes
IsFindClasses_AnyOperation(e) == e.operation # Absent /\ TruthyStr(e.keyword)
\* operation === "find_classes" && keyword
IsFindClasses(e) == e.operation = Some("find_classes") /\ TruthyStr(e.keyword)

\* ----------------------------------------------------------------------
\* Requests and renderer outcomes the model draws from
\* ----------------------------------------------------------------------
MaxElements == 2

Urls == {Absent, Some(""), Some("https://example.com")}
Operations == {Absent, Some("find_classes"), Some("screenshot")}
Keywords == {Absent, Some(""), Some("score")}
Selectors == {Absent, Some("#scores")}
Delays == {Absent, Some(0), Some(500)}
Timeouts == {Absent, Some(5000)}
WaitUntils == {Absent}

Events == [url : Urls, operation : Operations, keyword : Keywords,
           waitUntil : WaitUntils, timeout : Timeouts,
           waitForSelector : Selectors, delay : Delays]
          \cup {NullEvent}

\* what page.url() can report after navigation: the requested URL or a redirect target
RedirectedUrl == "https://example.com/home"
Documents == {"<html>scores</html>"}
Fragments == {"<div class=score>1-0</div>", "<span class=score>2-2</span>"}
ElementLists == UNION {[1..n -> Fragments] : n \in 0..MaxElements}

\* ----------------------------------------------------------------------
\* Renderer bookkeeping
\* ----------------------------------------------------------------------
Call(op, ok, target, timeout) == [op |-> op, ok |-> ok, target |-> target, timeout |-> timeout]

\* the log of invocation i extended by one renderer call
Logged(i, op, ok, target, timeout) ==
    [calls EXCEPT ![i] = Append(@, Call(op, ok, target, timeout))]

\* the Error object thrown by the call that has just been logged at position n
Thrown(op, n) == [step |-> op, at |-> n]

\* body of a 200 / 400 / 500 response
Response200(markup, url) == [statusCode |-> 200, html |-> markup, url |-> url]
Response400 == [statusCode |-> 400, error |-> MissingUrlMessage]
Response500(err, e) == [statusCode |-> 500, error |-> err, url |-> e.url]

\* ----------------------------------------------------------------------
\* Extraction (lines 112-150)
\* ----------------------------------------------------------------------
RECURSIVE HtmlParts(_, _, _)
\* elements.forEach((element, index) => { push(marker index+1); push(outerHTML) })
HtmlParts(elements, className, index) ==
    IF index > Len(elements) THEN <<>>
    ELSE <<[kind |-> "marker", n |-> index, text |-> className],
           [kind |-> "element", n |-> 0, text |-> elements[index]]>>
         \o HtmlParts(elements, className, index + 1)

\* the function passed to page.evaluate (lines 121-141)
FindClasses(elements, className) ==
    IF Len(elements) = 0
    THEN <<[kind |-> "no_elements", n |-> 0, text |-> className]>>
    ELSE HtmlParts(elements, className, 1)

\* page.content() (line 147)
FullDocument(doc) == <<[kind |-> "document", n |-> 0, text |-> doc]>>

\* ----------------------------------------------------------------------
\* The browser handler (src/src/lambdas/browser/index.mjs, lines 32-185)
\* ----------------------------------------------------------------------

\* where the handler goes after page.goto resolves (lines 96, 102)
AfterSelector(e) == IF DelayOf(e) > 0 THEN "delay" ELSE "url"
\* the requested selector wait left out
AfterGoto_SkipSelector(e) == AfterSelector(e)
AfterGoto(e) == IF TruthyStr(e.waitForSelector) THEN "waitForSelector" ELSE AfterSelector(e)

\* the catch block returning the close failure instead of the caught error
CatchResponse_CloseErrorWins(err, closeError, e) ==
    IF closeError # NoError THEN Response500(closeError, e) ELSE Response500(err, e)
\* return { statusCode: 500, body: { error: error.message, ..., url: event.url } } (lines 176-183)
CatchResponse(err, closeError, e) == Response500(err, e)

\* the catch block returning without closing the browser
Raise_NoClose(i, err) ==
    /\ error' = [error EXCEPT ![i] = err]
    /\ IF event[i] = NullEvent
       THEN /\ pc' = [pc EXCEPT ![i] = "rejected"]
            /\ UNCHANGED response
       ELSE /\ pc' = [pc EXCEPT ![i] = "done"]
            /\ response' = [response EXCEPT ![i] = CatchResponse(err, NoError, event[i])]
\* control reaches `catch (error)` (line 164) from a step that threw `err`:
\* with no browser to close the block returns at once, otherwise it awaits
\* browser.close(); building the returned object reads event.url (line 181),
\* which throws out of the catch block when the event is null
Raise(i, err) ==
    /\ error' = [error EXCEPT ![i] = err]
    /\ IF browser[i] # NullBrowser
       THEN /\ pc' = [pc EXCEPT ![i] = "catch_close"]
            /\ UNCHANGED response
       ELSE IF event[i] = NullEvent
       THEN /\ pc' = [pc EXCEPT ![i] = "rejected"]
            /\ UNCHANGED response
       ELSE /\ pc' = [pc EXCEPT ![i] = "done"]
            /\ response' = [response EXCEPT ![i] = CatchResponse(err, NoError, event[i])]

\* a renderer call that is neither launch nor close: logged, then continue or throw
Step(i, at, op, target, timeout, next) ==
    /\ pc[i] = at
    /\ \E ok \in BOOLEAN :
         /\ calls' = Logged(i, op, ok, target, timeout)
         /\ IF ok
            THEN /\ pc' = [pc EXCEPT ![i] = next]
                 /\ UNCHANGED <<error, response>>
            ELSE Raise(i, Thrown(op, Len(calls'[i])))
    /\ UNCHANGED <<event, matched, browser, finalUrl, html, waited, sessions>>
    /\ UNCHANGED <<gvars, svars>>

\* lines 37-54: validation of event.url
Validate(i) ==
    /\ pc[i] = "start"
    /\ IF event[i] = NullEvent
       THEN Raise(i, TypeError)
       ELSE IF MissingUrl(event[i])
       THEN /\ response' = [response EXCEPT ![i] = Response400]
            /\ pc' = [pc EXCEPT ![i] = "done"]
            /\ UNCHANGED error
       ELSE /\ pc' = [pc EXCEPT ![i] = "executablePath"]
            /\ UNCHANGED <<error, response>>
    /\ UNCHANGED <<event, matched, browser, finalUrl, html, waited, calls, sessions>>
    /\ UNCHANGED <<gvars, svars>>

\* line 65: await chromium.executablePath()
ExecutablePath(i) == Step(i, "executablePath", "executablePath", "", 0, "launch")

\* `browser` declared at module level, one variable for all invocations
Launch_SharedBrowser(i) ==
    /\ pc[i] = "launch"
    /\ \E ok \in BOOLEAN :
         /\ calls' = Logged(i, "launch", ok, "", 0)
         /\ IF ok
            THEN /\ sessions' = Append(sessions, [owner |-> i, open |-> TRUE, closeCalls |-> 0])
                 /\ browser' = [j \in DOMAIN browser |-> Len(sessions')]
                 /\ pc' = [pc EXCEPT ![i] = "newPage"]
                 /\ UNCHANGED <<error, response>>
            ELSE /\ Raise(i, Thrown("launch", Len(calls'[i])))
                 /\ UNCHANGED <<browser, sessions>>
    /\ UNCHANGED <<event, matched, finalUrl, html, waited>>
    /\ UNCHANGED <<gvars, svars>>

\* lines 62-68: browser = await puppeteer.launch(...)
Launch(i) ==
    /\ pc[i] = "launch"
    /\ \E ok \in BOOLEAN :
         /\ calls' = Logged(i, "launch", ok, "", 0)
         /\ IF ok
            THEN /\ sessions' = Append(sessions, [owner |-> i, open |-> TRUE, closeCalls |-> 0])
                 /\ browser' = [browser EXCEPT ![i] = Len(sessions')]
                 /\ pc' = [pc EXCEPT ![i] = "newPage"]
                 /\ UNCHANGED <<error, response>>
            ELSE /\ Raise(i, Thrown("launch", Len(calls'[i])))
                 /\ UNCHANGED <<browser, sessions>>
    /\ UNCHANGED <<event, matched, finalUrl, html, waited>>
    /\ UNCHANGED <<gvars, svars>>

\* line 73: const page = await browser.newPage()
NewPage(i) == Step(i, "newPage", "newPage", "", 0, "setUserAgent")

\* lines 76-78: await page.setUserAgent(...)
SetUserAgent(i) == Step(i, "setUserAgent", "setUserAgent", "Mozilla/5.0", 0, "setExtraHTTPHeaders")

\* lines 81-83: await page.setExtraHTTPHeaders({ "Accept-Language": ... })
SetExtraHTTPHeaders(i) ==
    Step(i, "setExtraHTTPHeaders", "setExtraHTTPHeaders", "en-US,en;q=0.9", 0, "goto")

\* lines 88-91: await page.goto(url, { waitUntil, timeout })
Goto(i) == Step(i, "goto", "goto", event[i].url[1], TimeoutOf(event[i]), AfterGoto(event[i]))

\* lines 96-99: await page.waitForSelector(waitForSelector, { timeout: 10000 })
WaitForSelector(i) ==
    Step(i, "waitForSelector", "waitForSelector", event[i].waitForSelector[1],
         SelectorTimeout, AfterSelector(event[i]))

\* lines 102-107: await new Promise((resolve) => setTimeout(resolve, delay))
SettleDelay(i) ==
    /\ pc[i] = "delay"
    /\ waited' = [waited EXCEPT ![i] = @ + DelayOf(event[i])]
    /\ pc' = [pc EXCEPT ![i] = "url"]
    /\ UNCHANGED <<event, matched, browser, error, finalUrl, html, response, calls, sessions>>
    /\ UNCHANGED <<gvars, svars>>

\* line 110: const finalUrl = page.url()
ReadFinalUrl(i) ==
    /\ pc[i] = "url"
    /\ \E u \in {event[i].url[1], RedirectedUrl} :
         finalUrl' = [finalUrl EXCEPT ![i] = u]
    /\ calls' = Logged(i, "url", TRUE, "", 0)
    /\ pc' = [pc EXCEPT ![i] = "extract"]
    /\ UNCHANGED <<event, matched, browser, error, html, waited, response, sessions>>
    /\ UNCHANGED <<gvars, svars>>

\* lines 112-150: html = await page.evaluate(...) or await page.content()
Extract(i) ==
    /\ pc[i] = "extract"
    /\ \E ok \in BOOLEAN :
         /\ IF IsFindClasses(event[i])
            THEN /\ calls' = Logged(i, "evaluate", ok, event[i].keyword[1], 0)
                 /\ IF ok
                    THEN \E elements \in ElementLists :
                           /\ html' = [html EXCEPT ![i] = FindClasses(elements, event[i].keyword[1])]
                           /\ matched' = [matched EXCEPT ![i] = Some(elements)]
                    ELSE UNCHANGED <<html, matched>>
            ELSE /\ calls' = Logged(i, "content", ok, "", 0)
                 /\ UNCHANGED matched
                 /\ IF ok
                    THEN \E doc \in Documents :
                           html' = [html EXCEPT ![i] = FullDocument(doc)]
                    ELSE UNCHANGED html
         /\ IF ok
            THEN /\ pc' = [pc EXCEPT ![i] = "close"]
                 /\ UNCHANGED <<error, response>>
            ELSE Raise(i, Thrown(IF IsFindClasses(event[i]) THEN "evaluate" ELSE "content",
                                 Len(calls'[i])))
    /\ UNCHANGED <<event, browser, finalUrl, waited, sessions>>
    /\ UNCHANGED <<gvars, svars>>

\* browser.close() on handle h: the call is counted; the process is gone when it resolves
Closed(h, ok) ==
    [sessions EXCEPT ![h] = [@ EXCEPT !.closeCalls = @ + 1,
                                      !.open = IF ok THEN FALSE ELSE @]]

\* lines 153-163: await browser.close(); browser = null; return { statusCode: 200, ... }
CloseBrowser(i) ==
    /\ pc[i] = "close"
    /\ \E ok \in BOOLEAN :
         /\ calls' = Logged(i, "close", ok, "", 0)
         /\ sessions' = Closed(browser[i], ok)
         /\ IF ok
            THEN /\ browser' = [browser EXCEPT ![i] = NullBrowser]
                 /\ response' = [response EXCEPT ![i] = Response200(html[i], finalUrl[i])]
                 /\ pc' = [pc EXCEPT ![i] = "done"]
                 /\ UNCHANGED error
            ELSE /\ Raise(i, Thrown("close", Len(calls'[i])))
                 /\ UNCHANGED browser
    /\ UNCHANGED <<event, matched, finalUrl, html, waited>>
    /\ UNCHANGED <<gvars, svars>>

\* lines 168-183: if (browser) { try { await browser.close() } catch (closeError) {} }; return 500
CatchClose(i) ==
    /\ pc[i] = "catch_close"
    /\ \E ok \in BOOLEAN :
         /\ calls' = Logged(i, "close", ok, "", 0)
         /\ sessions' = Closed(browser[i], ok)
         /\ LET closeError == IF ok THEN NoError ELSE Thrown("closeError", Len(calls'[i]))
            IN response' = [response EXCEPT ![i] = CatchResponse(error[i], closeError, event[i])]
    /\ pc' = [pc EXCEPT ![i] = "done"]
    /\ UNCHANGED <<event, matched, browser, error, finalUrl, html, waited>>
    /\ UNCHANGED <<gvars, svars>>

\* ----------------------------------------------------------------------
\* Python strings: a text is a sequence of characters
\* ----------------------------------------------------------------------
NL == "\n"
Whitespace == {" ", NL}
TripleNewline == <<NL, NL, NL>>
SingleNewline == <<NL>>

\* s[:n]
Take(s, n) == SubSeq(s, 1, IF Len(s) < n THEN Len(s) ELSE n)
\* s[n:]
Drop(s, n) == SubSeq(s, n + 1, Len(s))

\* sub occurs in s at (1-based) position k
OccursAt(s, sub, k) == k + Len(sub) - 1 <= Len(s) /\ SubSeq(s, k, k + Len(sub) - 1) = sub

RECURSIVE FindFrom(_, _, _)
\* s.find(sub) scanning from position k: the first position of sub, 0 when there is none
FindFrom(s, sub, k) ==
    IF k + Len(sub) - 1 > Len(s) THEN 0
    ELSE IF OccursAt(s, sub, k) THEN k
    ELSE FindFrom(s, sub, k + 1)

\* sub in s
Contains(s, sub) == FindFrom(s, sub, 1) # 0

\* s.split(sep, 1): one part when sep does not occur, else the text before and
\* the text after the first occurrence
SplitOnce(s, sep) ==
    LET k == FindFrom(s, sep, 1)
    IN IF k = 0 THEN <<s>>
       ELSE <<SubSeq(s, 1, k - 1), Drop(s, k + Len(sep) - 1)>>

RECURSIVE LStrip(_)
LStrip(s) == IF s # <<>> /\ Head(s) \in Whitespace THEN LStrip(Tail(s)) ELSE s
RECURSIVE RStrip(_)
RStrip(s) == IF s # <<>> /\ s[Len(s)] \in Whitespace THEN RStrip(SubSeq(s, 1, Len(s) - 1)) ELSE s
\* s.strip()
Strip(s) == RStrip(LStrip(s))

\* ----------------------------------------------------------------------
\* Response parsing (transcript lines 1975-1988)
\* ----------------------------------------------------------------------
\* the headline taken without .strip()
ParseHeadline_NoStrip(raw) ==
    IF Contains(raw, TripleNewline)
    THEN SplitOnce(raw, TripleNewline)[1]
    ELSE SplitOnce(raw, SingleNewline)[1]
\* headline as assigned at lines 1978-1979 / 1983-1984
ParseHeadline(raw) ==
    IF Contains(raw, TripleNewline)
    THEN Strip(SplitOnce(raw, TripleNewline)[1])
    ELSE Strip(SplitOnce(raw, SingleNewline)[1])

\* the degraded rule dropping the remainder of the text
ParseDescription_FirstLineOnly(raw) ==
    IF Contains(raw, TripleNewline)
    THEN Strip(SplitOnce(raw, TripleNewline)[2])
    ELSE <<>>
\* the description taken without .strip()
ParseDescription_NoStrip(raw) ==
    IF Contains(raw, TripleNewline)
    THEN SplitOnce(raw, TripleNewline)[2]
    ELSE LET lines == SplitOnce(raw, SingleNewline)
         IN IF Len(lines) > 1 THEN lines[2] ELSE <<>>
\* description as assigned at lines 1978, 1980 / 1983, 1985
ParseDescription(raw) ==
    IF Contains(raw, TripleNewline)
    THEN Strip(SplitOnce(raw, TripleNewline)[2])
    ELSE LET lines == SplitOnce(raw, SingleNewline)
         IN IF Len(lines) > 1 THEN Strip(lines[2]) ELSE <<>>

\* the message rebuilt from the parsed parts
ParseMessage_Rebuilt(raw) == ParseHeadline(raw) \o TripleNewline \o ParseDescription(raw)
\* message = notification_content.strip() (line 1988)
ParseMessage(raw) == Strip(raw)

\* Subject=headline[:100] (line 1994)
SubjectLimit == 100
\* the subject passed on untruncated
Subject_Untruncated(h) == h
Subject(h) == Take(h, SubjectLimit)

\* ----------------------------------------------------------------------
\* The soccer-news handler (transcript lines 1851-2025): values
\* ----------------------------------------------------------------------
MaxMessages == 2

\* max_wait_time = 300 (seconds) and time.sleep(2), in milliseconds
MaxWaitTime == 300000
PollInterval == 2000
\* the budget of a test that forces the primary strategy to time out
SimulatedBudget == 0
Budgets == {SimulatedBudget, MaxWaitTime}

\* time (ms) that creating the assistant, retrieving the run or the fallback call
\* can take; the other calls are taken to return at once
Latencies == {0, 2000}
\* time (ms) that can pass between two consecutive readings of the clock
Gaps == {0, 1}

Exc(msg, ctx) == [msg |-> msg, context |-> ctx]
NoExc == Exc("", "")
NoResult == [statusCode |-> 0]

\* the loop condition without cancelling
NonTerminal_WithoutCancelling == {"queued", "in_progress"}
NonTerminal == {"queued", "in_progress", "cancelling"}
\* run.status as returned by runs.create
InitialStatuses == {"queued", "in_progress"}
RunStatuses == {"queued", "in_progress", "cancelling", "completed", "failed", "expired"}

TimeoutMessage == "Assistant run timed out"
NoResponseMessage == "No response received from assistant"
NoneLenMessage == "object of type 'NoneType' has no len()"
StatusMessage(status) ==
    CASE status = "failed" -> "Assistant run failed with status: failed"
      [] status = "expired" -> "Assistant run failed with status: expired"
      [] OTHER -> "Assistant run failed with status"
ApiError(op) ==
    CASE op = "assistants.create" -> "assistants.create failed"
      [] op = "threads.create" -> "threads.create failed"
      [] op = "messages.create" -> "messages.create failed"
      [] op = "runs.create" -> "runs.create failed"
      [] op = "runs.retrieve" -> "runs.retrieve failed"
      [] op = "messages.list" -> "messages.list failed"
      [] op = "chat.completions.create" -> "chat.completions.create failed"
      [] OTHER -> "sns.publish failed"

\* texts the two generation strategies can produce
PrimaryText == <<"p", NL, NL, NL, "q">>
FallbackText == <<"f", NL, "g">>

TextPart(t) == [type |-> "text", value |-> t]
ImagePart == [type |-> "image_file", value |-> <<>>]
Messages ==
    {[role |-> "assistant", content |-> <<TextPart(PrimaryText)>>],
     [role |-> "assistant", content |-> <<TextPart(<<>>)>>],
     [role |-> "assistant", content |-> <<ImagePart>>],
     [role |-> "assistant", content |-> <<ImagePart, TextPart(PrimaryText)>>],
     [role |-> "assistant", content |-> <<>>],
     [role |-> "user", content |-> <<TextPart(<<"u">>)>>]}
MessageLists == UNION {[1..n -> Messages] : n \in 0..MaxMessages}

\* what response.choices[0].message.content can be
FallbackContents == {Absent, Some(<<>>), Some(FallbackText)}

\* `x is None` in place of `not x`
FalsyText_NoneOnly(o) == o = Absent
\* `not x` for an optional text: None and "" are falsy
FalsyText(o) == o = Absent \/ o[1] = <<>>

RECURSIVE FirstAssistantText_NoBreak(_, _)
\* the loop without its `break`: the last matching message wins
FirstAssistantText_NoBreak(msgs, k) ==
    IF k > Len(msgs) THEN Absent
    ELSE LET later == FirstAssistantText_NoBreak(msgs, k + 1)
         IN IF later # Absent THEN later
            ELSE IF /\ msgs[k].role = "assistant"
                    /\ msgs[k].content # <<>>
                    /\ msgs[k].content[1].type = "text"
                 THEN Some(msgs[k].content[1].value)
                 ELSE Absent

RECURSIVE FirstAssistantText(_, _)
\* lines 1935-1940: the text of the first message of role assistant whose
\* content is non-empty and starts with a text part; None when there is none
FirstAssistantText(msgs, k) ==
    IF k > Len(msgs) THEN Absent
    ELSE IF /\ msgs[k].role = "assistant"
            /\ msgs[k].content # <<>>
            /\ msgs[k].content[1].type = "text"
         THEN Some(msgs[k].content[1].value)
         ELSE FirstAssistantText(msgs, k + 1)

\* count[op]: calls made to an endpoint; "assistant created": assistants.create calls that succeeded
Counted(op) == [count EXCEPT ![op] = @ + 1]
Endpoints == {"assistants.create", "assistant created", "chat.completions.create", "assistants.delete"}

ErrorSubject == <<"Soccer News Error">>
ErrorMessage(e) == <<"Error processing soccer news: ", e.msg>>
Publication(subject, body, ok) == [Subject |-> subject, Message |-> body, ok |-> ok]

\* ----------------------------------------------------------------------
\* The soccer-news handler: steps
\* ----------------------------------------------------------------------
\* the inner `except Exception as e` (line 1945) is entered with exception exc
PrimaryFails(exc) ==
    /\ primary_exc' = exc
    /\ gpc' = "fallback"

\* the handler without the check of lines 1864-1867
CheckEnvironment_KeyUnchecked ==
    /\ gpc = "start"
    /\ IF ~environ.SNS_TOPIC_ARN
       THEN /\ pending' = Exc("SNS_TOPIC_ARN environment variable is not set", "")
            /\ gpc' = "except"
       ELSE IF FALSE
       THEN /\ pending' = Exc("OPENAI_API_KEY environment variable is not set", "")
            /\ gpc' = "except"
       ELSE /\ gpc' = "setup"
            /\ UNCHANGED pending
    /\ UNCHANGED <<environ, now, start_time, max_wait_time, assistant_id, run_status, messages,
                   notification_content, primary_exc, headline, description, message,
                   published, count, result, raised>>
    /\ UNCHANGED <<thrown, fallback_response>>
    /\ UNCHANGED <<bvars, svars>>

\* lines 1858-1867: environment variables
CheckEnvironment ==
    /\ gpc = "start"
    /\ IF ~environ.SNS_TOPIC_ARN
       THEN /\ pending' = Exc("SNS_TOPIC_ARN environment variable is not set", "")
            /\ gpc' = "except"
       ELSE IF ~environ.OPENAI_API_KEY
       THEN /\ pending' = Exc("OPENAI_API_KEY environment variable is not set", "")
            /\ gpc' = "except"
       ELSE /\ gpc' = "setup"
            /\ UNCHANGED pending
    /\ UNCHANGED <<environ, now, start_time, max_wait_time, assistant_id, run_status, messages,
                   notification_content, primary_exc, headline, description, message,
                   published, count, result, raised>>
    /\ UNCHANGED <<thrown, fallback_response>>
    /\ UNCHANGED <<bvars, svars>>

\* lines 1870-1881: OpenAI client, prompt template, notification_content = None
SetUp ==
    /\ gpc = "setup"
    /\ \E ok \in BOOLEAN :
         IF ok
         THEN /\ gpc' = "create_assistant"
              /\ UNCHANGED pending
         ELSE /\ pending' = Exc("prompt_template.txt: No such file or directory", "")
              /\ gpc' = "except"
    /\ notification_content' = Absent
    /\ assistant_id' = Absent
    /\ UNCHANGED <<environ, now, start_time, max_wait_time, run_status, messages,
                   primary_exc, headline, description, message,
                   published, count, result, raised>>
    /\ UNCHANGED <<thrown, fallback_response>>
    /\ UNCHANGED <<bvars, svars>>

\* an OpenAI call of the primary strategy that only succeeds or throws
PrimaryCall(at, op, next) ==
    /\ gpc = at
    /\ \E ok \in BOOLEAN :
         /\ IF ok
            THEN /\ gpc' = next
                 /\ UNCHANGED <<primary_exc, thrown>>
            ELSE /\ PrimaryFails(Exc(ApiError(op), ""))
                 /\ thrown' = thrown \cup {op}
    /\ UNCHANGED <<environ, now, start_time, max_wait_time, assistant_id, run_status, messages,
                   notification_content, pending, headline, description, message,
                   published, count, result, raised>>
    /\ UNCHANGED <<fallback_response>>
    /\ UNCHANGED <<bvars, svars>>

\* lines 1886-1894: assistant = client.beta.assistants.create(...); assistant_id = assistant.id
CreateAssistant ==
    /\ gpc = "create_assistant"
    /\ \E ok \in BOOLEAN, d \in Latencies :
         /\ now' = now + d
         /\ IF ok
            THEN /\ assistant_id' = Some("asst_1")
                 /\ count' = [count EXCEPT !["assistants.create"] = @ + 1,
                                           !["assistant created"] = @ + 1]
                 /\ gpc' = "create_thread"
                 /\ UNCHANGED <<primary_exc, thrown>>
            ELSE /\ PrimaryFails(Exc(ApiError("assistants.create"), ""))
                 /\ count' = Counted("assistants.create")
                 /\ thrown' = thrown \cup {"assistants.create"}
                 /\ UNCHANGED assistant_id
    /\ UNCHANGED <<environ, start_time, max_wait_time, run_status, messages,
                   notification_content, pending, headline, description, message,
                   published, result, raised>>
    /\ UNCHANGED <<fallback_response>>
    /\ UNCHANGED <<bvars, svars>>

\* line 1897: thread = client.beta.threads.create()
CreateThread == PrimaryCall("create_thread", "threads.create", "create_message")

\* lines 1900-1904: client.beta.threads.messages.create(...)
CreateMessage == PrimaryCall("create_message", "messages.create", "create_run")

\* lines 1907-1916: run = client.beta.threads.runs.create(...); start_time = time.time()
CreateRun ==
    /\ gpc = "create_run"
    /\ \E ok \in BOOLEAN :
         IF ok
         THEN /\ \E s \in InitialStatuses : run_status' = s
              /\ start_time' = now
              /\ \E g \in Gaps : now' = now + g
              /\ gpc' = "poll"
              /\ UNCHANGED <<primary_exc, thrown>>
         ELSE /\ UNCHANGED now
              /\ PrimaryFails(Exc(ApiError("runs.create"), ""))
              /\ thrown' = thrown \cup {"runs.create"}
              /\ UNCHANGED <<run_status, start_time>>
    /\ UNCHANGED <<environ, max_wait_time, assistant_id, messages,
                   notification_content, pending, headline, description, message,
                   published, count, result, raised>>
    /\ UNCHANGED <<fallback_response>>
    /\ UNCHANGED <<bvars, svars>>

\* the budget test with `>=`
TimedOut_AtBudget(elapsed, budget) == elapsed >= budget
\* the budget test letting one more poll interval pass
TimedOut_OneIntervalLate(elapsed, budget) == elapsed > budget + PollInterval
\* line 1919: time.time() - start_time > max_wait_time
TimedOut(elapsed, budget) == elapsed > budget

\* lines 1918-1920 and 1928-1929: loop condition, budget test, status after the loop
PollCheck ==
    /\ gpc = "poll"
    /\ IF run_status \in NonTerminal
       THEN IF TimedOut(now - start_time, max_wait_time)
            THEN PrimaryFails(Exc(TimeoutMessage, ""))
            ELSE /\ gpc' = "sleep"
                 /\ UNCHANGED primary_exc
       ELSE IF run_status # "completed"
            THEN PrimaryFails(Exc(StatusMessage(run_status), ""))
            ELSE /\ gpc' = "list"
                 /\ UNCHANGED primary_exc
    /\ UNCHANGED <<environ, now, start_time, max_wait_time, assistant_id, run_status, messages,
                   notification_content, pending, headline, description, message,
                   published, count, result, raised>>
    /\ UNCHANGED <<thrown, fallback_response>>
    /\ UNCHANGED <<bvars, svars>>

\* line 1921: time.sleep(2)
Sleep ==
    /\ gpc = "sleep"
    /\ now' = now + PollInterval
    /\ gpc' = "retrieve"
    /\ UNCHANGED <<environ, start_time, max_wait_time, assistant_id, run_status, messages,
                   notification_content, primary_exc, pending, headline, description, message,
                   published, count, result, raised>>
    /\ UNCHANGED <<thrown, fallback_response>>
    /\ UNCHANGED <<bvars, svars>>

\* lines 1922-1926: run = client.beta.threads.runs.retrieve(...)
RetrieveRun ==
    /\ gpc = "retrieve"
    /\ \E ok \in BOOLEAN, d \in Latencies :
         /\ now' = now + d
         /\ IF ok
            THEN /\ \E s \in RunStatuses : run_status' = s
                 /\ gpc' = "poll"
                 /\ UNCHANGED <<primary_exc, thrown>>
            ELSE /\ PrimaryFails(Exc(ApiError("runs.retrieve"), ""))
                 /\ thrown' = thrown \cup {"runs.retrieve"}
                 /\ UNCHANGED run_status
    /\ UNCHANGED <<environ, start_time, max_wait_time, assistant_id, messages,
                   notification_content, pending, headline, description, message,
                   published, count, result, raised>>
    /\ UNCHANGED <<fallback_response>>
    /\ UNCHANGED <<bvars, svars>>

\* lines 1932-1943: messages.list, first assistant text, `if not notification_content: raise`
ListMessages ==
    /\ gpc = "list"
    /\ \E ok \in BOOLEAN :
         /\ IF ok
            THEN \E msgs \in MessageLists :
                   /\ messages' = msgs
                   /\ notification_content' = FirstAssistantText(msgs, 1)
                   /\ IF FalsyText(notification_content')
                      THEN PrimaryFails(Exc(NoResponseMessage, ""))
                      ELSE /\ gpc' = "finally"
                           /\ UNCHANGED primary_exc
                   /\ UNCHANGED thrown
            ELSE /\ PrimaryFails(Exc(ApiError("messages.list"), ""))
                 /\ thrown' = thrown \cup {"messages.list"}
                 /\ UNCHANGED <<messages, notification_content>>
    /\ UNCHANGED <<environ, now, start_time, max_wait_time, assistant_id, run_status,
                   pending, headline, description, message,
                   published, count, result, raised>>
    /\ UNCHANGED <<fallback_response>>
    /\ UNCHANGED <<bvars, svars>>

\* the fallback failure replaced by the primary exception
FallbackExc_PrimaryReraised(primary) == primary
\* an exception raised inside `except Exception as e` (lines 1945-1964): it is the
\* new exception, with the exception being handled as its implicit __context__
FallbackExc(primary) == Exc(ApiError("chat.completions.create"), primary.msg)

\* lines 1945-1964: response = client.chat.completions.create(...)
Fallback ==
    /\ gpc = "fallback"
    /\ count' = Counted("chat.completions.create")
    /\ \E ok \in BOOLEAN, d \in Latencies :
         /\ now' = now + d
         /\ IF ok
            THEN /\ \E c \in FallbackContents :
                        /\ notification_content' = c
                        /\ fallback_response' = Some(c)
                 /\ UNCHANGED <<pending, thrown>>
            ELSE /\ pending' = FallbackExc(primary_exc)
                 /\ thrown' = thrown \cup {"chat.completions.create"}
                 /\ UNCHANGED <<notification_content, fallback_response>>
    /\ gpc' = "finally"
    /\ UNCHANGED <<environ, start_time, max_wait_time, assistant_id, run_status, messages,
                   primary_exc, headline, description, message,
                   published, result, raised>>
    /\ UNCHANGED <<bvars, svars>>

\* a failed deletion replacing the exception in flight
AfterDelete_Propagates(ok, exc) == IF ok THEN exc ELSE Exc("assistants.delete failed", exc.msg)
\* lines 1968-1971: try: delete(assistant_id) except: pass -- the exception in
\* flight (or none) is the same after the deletion, whether or not it failed
AfterDelete(ok, exc) == exc

\* lines 1965-1971: finally: if assistant_id: try: delete(assistant_id) except: pass
Finally ==
    /\ gpc = "finally"
    /\ IF assistant_id # Absent
       THEN /\ count' = Counted("assistants.delete")
            /\ \E ok \in BOOLEAN :
                 /\ pending' = AfterDelete(ok, pending)
                 /\ thrown' = IF ok THEN thrown ELSE thrown \cup {"assistants.delete"}
       ELSE UNCHANGED <<count, pending, thrown>>
    /\ gpc' = IF pending' # NoExc THEN "except" ELSE "parse"
    /\ UNCHANGED <<environ, now, start_time, max_wait_time, assistant_id, run_status, messages,
                   notification_content, primary_exc, headline, description, message,
                   published, result, raised, fallback_response>>
    /\ UNCHANGED <<bvars, svars>>

\* lines 1973-1988: len(notification_content), headline, description, message
Parse ==
    /\ gpc = "parse"
    /\ IF notification_content = Absent
       THEN /\ pending' = Exc(NoneLenMessage, "")
            /\ gpc' = "except"
            /\ UNCHANGED <<headline, description, message>>
       ELSE /\ headline' = ParseHeadline(notification_content[1])
            /\ description' = ParseDescription(notification_content[1])
            /\ message' = ParseMessage(notification_content[1])
            /\ gpc' = "publish"
            /\ UNCHANGED pending
    /\ UNCHANGED <<environ, now, start_time, max_wait_time, assistant_id, run_status, messages,
                   notification_content, primary_exc, published, count, result, raised>>
    /\ UNCHANGED <<thrown, fallback_response>>
    /\ UNCHANGED <<bvars, svars>>

\* lines 1991-2007: sns_client.publish(...); return { statusCode: 200, ... }
Publish ==
    /\ gpc = "publish"
    /\ \E ok \in BOOLEAN :
         /\ published' = Append(published, Publication(Subject(headline), message, ok))
         /\ IF ok
            THEN /\ result' = [statusCode |-> 200, headline |-> headline,
                               descriptionLength |-> Len(description)]
                 /\ gpc' = "returned"
                 /\ UNCHANGED pending
            ELSE /\ pending' = Exc(ApiError("sns.publish"), "")
                 /\ gpc' = "except"
                 /\ UNCHANGED result
    /\ UNCHANGED <<environ, now, start_time, max_wait_time, assistant_id, run_status, messages,
                   notification_content, primary_exc, headline, description, message,
                   count, raised>>
    /\ UNCHANGED <<thrown, fallback_response>>
    /\ UNCHANGED <<bvars, svars>>

\* a failed error notification replacing the exception being reported
AfterErrorPublish_Propagates(ok, exc) == IF ok THEN exc ELSE Exc(ApiError("sns.publish"), exc.msg)
\* lines 2016-2025: try: publish(...) except: pass; raise e -- the exception
\* raised is the one caught, whether or not the error notification failed
AfterErrorPublish(ok, exc) == exc

\* lines 2009-2025: outer except: error notification if the topic is known, then raise e
OuterExcept ==
    /\ gpc = "except"
    /\ IF environ.SNS_TOPIC_ARN
       THEN \E ok \in BOOLEAN :
              /\ published' = Append(published, Publication(ErrorSubject, ErrorMessage(pending), ok))
              /\ raised' = AfterErrorPublish(ok, pending)
       ELSE /\ UNCHANGED published
            /\ raised' = pending
    /\ gpc' = "raised"
    /\ UNCHANGED <<environ, now, start_time, max_wait_time, assistant_id, run_status, messages,
                   notification_content, primary_exc, pending, headline, description, message,
                   count, result>>
    /\ UNCHANGED <<thrown, fallback_response>>
    /\ UNCHANGED <<bvars, svars>>


\* timeout: cdk.Duration.minutes(5) of SoccerNewsLambda, in ms
LambdaTimeout == 300000

\* ----------------------------------------------------------------------
\* The schedule of the deployed stack (src/lib/soccer-news-stack.ts as
\* imported by bin/soccer-news-infra.ts)
\* ----------------------------------------------------------------------
\* events.Schedule.cron({ minute: "0", hour: "9", day: "*", month: "*", year: "*" })
CronMinute == 0
CronHour == 9
CronMatches(t) == t.minute = CronMinute /\ t.hour = CronHour

\* the targets of the rule: schedule.addTarget(...) is commented out
RuleTargets == {}

\* days the clock runs through
MaxDays == 2
Midnight == [day |-> 1, hour |-> 0, minute |-> 0]
LastMinute == [day |-> MaxDays, hour |-> 23, minute |-> 59]
NextMinute(t) ==
    IF t.minute < 59 THEN [t EXCEPT !.minute = @ + 1]
    ELSE IF t.hour < 23 THEN [t EXCEPT !.hour = @ + 1, !.minute = 0]
    ELSE [day |-> t.day + 1, hour |-> 0, minute |-> 0]

\* no rule evaluation in progress: the clock at the first midnight
ScheduleStart ==
    /\ utc = Midnight
    /\ fired = 0
    /\ invoked = 0

\* a minute passes; EventBridge has evaluated the rule for the minute that ends
Tick ==
    /\ utc # LastMinute
    /\ CronMatches(utc) => fired = utc.day
    /\ utc' = NextMinute(utc)
    /\ UNCHANGED <<fired, invoked>>
    /\ UNCHANGED <<bvars, gvars>>

\* the schedule matches: EventBridge invokes every target of the rule
RuleFires ==
    /\ CronMatches(utc)
    /\ fired = utc.day - 1
    /\ fired' = fired + 1
    /\ invoked' = invoked + Cardinality({t \in RuleTargets : t = "SoccerNewsLambda"})
    /\ UNCHANGED utc
    /\ UNCHANGED <<bvars, gvars>>

\* ----------------------------------------------------------------------
\* Specifications
\* ----------------------------------------------------------------------
Invocations == {"i1"}

\* the invocations I, each holding one of the given requests, before line 33
BrowserStart(I, requests) ==
    /\ event \in [I -> requests]
    /\ pc = [i \in I |-> "start"]
    /\ browser = [i \in I |-> NullBrowser]
    /\ error = [i \in I |-> NoError]
    /\ finalUrl = [i \in I |-> NoUrl]
    /\ html = [i \in I |-> <<>>]
    /\ matched = [i \in I |-> Absent]
    /\ waited = [i \in I |-> 0]
    /\ response = [i \in I |-> NoResponse]
    /\ calls = [i \in I |-> <<>>]
    /\ sessions = <<>>

BrowserInit(I) == BrowserStart(I, Events)

\* the soccer-news handler at position `at`, with a budget and a generated text
GenInit(at, budgets, contents) ==
    /\ gpc = at
    /\ environ \in [SNS_TOPIC_ARN : BOOLEAN, OPENAI_API_KEY : BOOLEAN]
    /\ max_wait_time \in budgets
    /\ now = 0
    /\ start_time = 0
    /\ assistant_id = Absent
    /\ run_status = "none"
    /\ messages = <<>>
    /\ notification_content \in contents
    /\ primary_exc = NoExc
    /\ pending = NoExc
    /\ headline = <<>>
    /\ description = <<>>
    /\ message = <<>>
    /\ published = <<>>
    /\ count = [op \in Endpoints |-> 0]
    /\ result = NoResult
    /\ raised = NoExc
    /\ thrown = {}
    /\ fallback_response = Absent

\* Spec: one invocation of the browser handler, every request drawn from Events
Init ==
    /\ BrowserInit(Invocations)
    /\ ScheduleStart
    /\ GenInit("idle", {MaxWaitTime}, {Absent})
    /\ environ.SNS_TOPIC_ARN
    /\ environ.OPENAI_API_KEY

Next ==
    \/ \E i \in DOMAIN pc : Validate(i)
    \/ \E i \in DOMAIN pc : ExecutablePath(i)
    \/ \E i \in DOMAIN pc : Launch(i)
    \/ \E i \in DOMAIN pc : NewPage(i)
    \/ \E i \in DOMAIN pc : SetUserAgent(i)
    \/ \E i \in DOMAIN pc : SetExtraHTTPHeaders(i)
    \/ \E i \in DOMAIN pc : Goto(i)
    \/ \E i \in DOMAIN pc : WaitForSelector(i)
    \/ \E i \in DOMAIN pc : SettleDelay(i)
    \/ \E i \in DOMAIN pc : ReadFinalUrl(i)
    \/ \E i \in DOMAIN pc : Extract(i)
    \/ \E i \in DOMAIN pc : CloseBrowser(i)
    \/ \E i \in DOMAIN pc : CatchClose(i)

Spec == Init /\ [][Next]_vars

\* GenSpec: one invocation of the soccer-news handler
GenStart == BrowserInit({}) /\ ScheduleStart /\ GenInit("start", Budgets, {Absent})

GenNext ==
    \/ CheckEnvironment
    \/ SetUp
    \/ CreateAssistant
    \/ CreateThread
    \/ CreateMessage
    \/ CreateRun
    \/ PollCheck
    \/ Sleep
    \/ RetrieveRun
    \/ ListMessages
    \/ Fallback
    \/ Finally
    \/ Parse
    \/ Publish
    \/ OuterExcept

GenSpec == GenStart /\ [][GenNext]_vars

\* ParseSpec: the handler from line 1973 on, for every text of up to MaxLen
\* characters (and None) that the generation step can hand over
MaxLen == 6
Chars == {"a", "b", " ", NL}
Texts == UNION {[1..n -> Chars] : n \in 0..MaxLen}
\* texts whose headline is one character short of, at, and beyond the subject limit
LongLine(n) == [k \in 1..n |-> "a"]
LongTexts ==
    UNION {{LongLine(n), LongLine(n) \o <<NL, NL, NL, "b">>, <<" ">> \o LongLine(n) \o <<NL, "b">>}
             : n \in SubjectLimit - 1..SubjectLimit + 1}

ParseStart ==
    /\ BrowserInit({})
    /\ ScheduleStart
    /\ GenInit("parse", {MaxWaitTime}, {Absent} \cup {Some(t) : t \in Texts \cup LongTexts})
    /\ environ.SNS_TOPIC_ARN
    /\ environ.OPENAI_API_KEY

ParseNext ==
    \/ Parse
    \/ Publish
    \/ OuterExcept

ParseSpec == ParseStart /\ [][ParseNext]_vars


\* ----------------------------------------------------------------------
\* Two concurrent invocations of the browser handler (two execution
\* environments, or two calls awaiting in one Node.js process)
\* ----------------------------------------------------------------------
ConcurrentInvocations == {"i1", "i2"}

\* requests of the four kinds: no url, a null event, a full document after a
\* selector wait, a class search with delay 0
ConcurrentEvents ==
    {e \in Events :
        \/ e = NullEvent
        \/ /\ e # NullEvent
           /\ e.timeout = Absent
           /\ \/ /\ e.url = Absent /\ e.operation = Absent /\ e.keyword = Absent
                 /\ e.waitForSelector = Absent /\ e.delay = Absent
              \/ /\ e.url = Some("https://example.com") /\ e.operation = Absent
                 /\ e.keyword = Absent /\ e.waitForSelector = Some("#scores")
                 /\ e.delay = Absent
              \/ /\ e.url = Some("https://example.com")
                 /\ e.operation = Some("find_classes") /\ e.keyword = Some("score")
                 /\ e.waitForSelector = Absent /\ e.delay = Some(0)}

ConcInit ==
    /\ BrowserStart(ConcurrentInvocations, ConcurrentEvents)
    /\ ScheduleStart
    /\ GenInit("idle", {MaxWaitTime}, {Absent})
    /\ environ.SNS_TOPIC_ARN
    /\ environ.OPENAI_API_KEY

ConcSpec == ConcInit /\ [][Next]_vars

\* ----------------------------------------------------------------------
\* The poll loop of the soccer-news handler, from runs.create (line 1907) until
\* the primary attempt has ended and the assistant was disposed of. The code is
\* sequential: a step that can be taken is taken (time.sleep returns; every
\* API call returns or raises).
\* ----------------------------------------------------------------------
PollStart ==
    /\ BrowserInit({})
    /\ ScheduleStart
    /\ gpc = "create_run"
    /\ environ = [SNS_TOPIC_ARN |-> TRUE, OPENAI_API_KEY |-> TRUE]
    /\ max_wait_time \in Budgets
    /\ now \in Latencies
    /\ start_time = 0
    /\ assistant_id = Some("asst_1")
    /\ run_status = "none"
    /\ messages = <<>>
    /\ notification_content = Absent
    /\ primary_exc = NoExc
    /\ pending = NoExc
    /\ headline = <<>>
    /\ description = <<>>
    /\ message = <<>>
    /\ published = <<>>
    /\ count = [op \in Endpoints |->
                  IF op \in {"assistants.create", "assistant created"} THEN 1 ELSE 0]
    /\ result = NoResult
    /\ raised = NoExc
    /\ thrown = {}
    /\ fallback_response = Absent

PollNext ==
    \/ CreateRun
    \/ PollCheck
    \/ Sleep
    \/ RetrieveRun
    \/ Fallback
    \/ Finally

PollSpec == PollStart /\ [][PollNext]_vars /\ WF_vars(PollNext)

\* ----------------------------------------------------------------------
\* The deployed schedule: EventBridge's clock and the rule SoccerNewsSchedule
\* ----------------------------------------------------------------------
SchedInit ==
    /\ BrowserInit({})
    /\ ScheduleStart
    /\ GenInit("idle", {MaxWaitTime}, {Absent})
    /\ environ.SNS_TOPIC_ARN
    /\ environ.OPENAI_API_KEY

SchedNext ==
    \/ Tick
    \/ RuleFires

SchedSpec == SchedInit /\ [][SchedNext]_vars

\* ----------------------------------------------------------------------
\* Properties of the browser handler
\* ----------------------------------------------------------------------
Returned(i) == pc[i] = "done"
CallIndexes(i, op) == {k \in 1..Len(calls[i]) : calls[i][k].op = op}
Succeeded(i, op) == \E k \in CallIndexes(i, op) : calls[i][k].ok
Failures(i) == {k \in 1..Len(calls[i]) : ~calls[i][k].ok}
FirstFailure(i) == CHOOSE k \in Failures(i) : \A m \in Failures(i) : k <= m
LaunchedBrowser(i) == Succeeded(i, "launch")
Extracted(i) == Succeeded(i, "evaluate") \/ Succeeded(i, "content")

\* C1: every invocation that launched a browser has called browser.close()
\* exactly once by the time the handler returns.
C1_CloseExactlyOnce ==
    \A i \in DOMAIN pc :
        (Returned(i) /\ LaunchedBrowser(i)) => Cardinality(CallIndexes(i, "close")) = 1

\* C2: a request whose url is absent or empty is answered with status 400 and
\* the error "Missing required parameter: url", and no renderer call is ever
\* made for it (no launch, no newPage, no navigation, no close, no session).
C2_MissingUrlRejectedWithoutSession ==
    \A i \in DOMAIN pc :
        (event[i] # NullEvent /\ (event[i].url = Absent \/ event[i].url = Some(""))) =>
            /\ calls[i] = <<>>
            /\ browser[i] = NullBrowser
            /\ \A h \in 1..Len(sessions) : sessions[h].owner # i
            /\ pc[i] \in {"start", "done"}
            /\ Returned(i) =>
                 /\ response[i].statusCode = 400
                 /\ response[i].error = "Missing required parameter: url"

C2_Witness ==
    \E i \in DOMAIN pc :
        /\ Returned(i)
        /\ event[i].url = Some("")
        /\ response[i].statusCode = 400

\* C8: when navigation, waiting and extraction have all succeeded, the handler
\* returns the status-200 result with the extracted markup and the final URL,
\* also when browser.close() fails.
C8_CloseFailureKeepsResult ==
    \A i \in DOMAIN pc :
        (Returned(i) /\ Extracted(i)) =>
            /\ response[i].statusCode = 200
            /\ response[i].html = html[i]
            /\ response[i].url = finalUrl[i]

\* C9: when a step fails after the browser was launched and the close that
\* follows fails too, the handler returns status 500 carrying the error of the
\* step that failed first, not the error of the close.
C9_OriginalErrorSurvivesCloseFailure ==
    \A i \in DOMAIN pc :
        (/\ Returned(i)
         /\ LaunchedBrowser(i)
         /\ Failures(i) # {}
         /\ \E k \in Failures(i) : k > FirstFailure(i) /\ calls[i][k].op = "close") =>
            /\ response[i].statusCode = 500
            /\ response[i].error = Thrown(calls[i][FirstFailure(i)].op, FirstFailure(i))
            /\ response[i].url = event[i].url

C9_Witness ==
    \E i \in DOMAIN pc :
        /\ Returned(i)
        /\ LaunchedBrowser(i)
        /\ \E k \in Failures(i) : calls[i][k].op = "goto"
        /\ \E k \in Failures(i) : calls[i][k].op = "close"
        /\ response[i].statusCode = 500

\* C11: a keyword-scoped extraction that matched no element ends in a status-200
\* response whose markup is the single placeholder naming the keyword; the markup
\* is not empty and the response is not an error response.
C11_NoMatchReturnsPlaceholder ==
    \A i \in DOMAIN pc :
        (Returned(i) /\ matched[i] = Some(<<>>)) =>
            /\ response[i].statusCode = 200
            /\ response[i].html # <<>>
            /\ response[i].html =
                 <<[kind |-> "no_elements", n |-> 0, text |-> event[i].keyword[1]]>>

\* the marker comment for position k of keyword kw, and the fragment of an element
Marker(k, kw) == [kind |-> "marker", n |-> k, text |-> kw]
Fragment(el) == [kind |-> "element", n |-> 0, text |-> el]

\* the markup extracted for the matched elements els: 2n parts, the k-th fragment
\* right after the marker numbered k, so the markers are numbered 1..n
MarkupInOrder(markup, els, kw) ==
    LET n == Len(els)
    IN /\ Len(markup) = 2 * n
       /\ \A k \in 1..n :
             /\ markup[2 * k - 1] = Marker(k, kw)
             /\ markup[2 * k] = Fragment(els[k])
       /\ {markup[k].n : k \in {m \in 1..2 * n : markup[m].kind = "marker"}} = 1..n

\* C12: when n >= 1 elements matched, the handler returns status 200 with the
\* final URL read from the page and with the n fragments in document order, the
\* k-th one right after the marker numbered k.
C12_MatchesInOrderWithMarkers ==
    \A i \in DOMAIN pc :
        (matched[i] # Absent /\ Len(matched[i][1]) >= 1) =>
            /\ MarkupInOrder(html[i], matched[i][1], event[i].keyword[1])
            /\ Returned(i) =>
                  /\ response[i].statusCode = 200
                  /\ response[i].html = html[i]
                  /\ response[i].url = finalUrl[i]
                  /\ finalUrl[i] \in {event[i].url[1], RedirectedUrl}

\* the request carries an operation tag / a non-empty keyword
HasOperationTag(e) == e.operation # Absent
HasKeyword(e) == e.keyword # Absent /\ e.keyword[1] # ""
ExtractionCalls(i) == CallIndexes(i, "evaluate") \cup CallIndexes(i, "content")
IsDocument(markup) == Len(markup) = 1 /\ markup[1].kind = "document"

\* C13 as stated: the extraction call is the keyword-scoped one exactly when the
\* request carries an operation tag and a non-empty keyword; otherwise it is the
\* full-document one and a status-200 response carries the document markup.
C13_KeywordScopedWhenTagAndKeyword ==
    \A i \in DOMAIN pc :
        ExtractionCalls(i) # {} =>
            /\ CallIndexes(i, "evaluate") # {} <=>
                   (HasOperationTag(event[i]) /\ HasKeyword(event[i]))
            /\ (Returned(i) /\ response[i].statusCode = 200
                   /\ ~(HasOperationTag(event[i]) /\ HasKeyword(event[i]))) =>
                     IsDocument(response[i].html)

\* C13 as amended: the extraction call is the keyword-scoped one exactly when the
\* operation tag is "find_classes" and the keyword is non-empty; in every other
\* case (no tag, another tag, no keyword, empty keyword) it is the full-document
\* one and a status-200 response carries the document markup.
C13_KeywordScopedWhenFindClasses ==
    \A i \in DOMAIN pc :
        ExtractionCalls(i) # {} =>
            LET scoped == event[i].operation = Some("find_classes") /\ HasKeyword(event[i])
            IN /\ Cardinality(ExtractionCalls(i)) = 1
               /\ CallIndexes(i, "evaluate") # {} <=> scoped
               /\ CallIndexes(i, "content") # {} <=> ~scoped
               /\ (Returned(i) /\ response[i].statusCode = 200) =>
                     (IsDocument(response[i].html) <=> ~scoped)

C13_Witness ==
    \E i \in DOMAIN pc :
        /\ Returned(i)
        /\ event[i].operation = Some("screenshot")
        /\ event[i].keyword = Some("score")
        /\ response[i].statusCode = 200
        /\ IsDocument(response[i].html)

\* C14: every invocation ends by returning one response whose status is 200,
\* 400 or 500; no exception leaves the handler, whatever the request value is
\* and whichever renderer call throws.
C14_AlwaysStructuredResponse ==
    \A i \in DOMAIN pc :
        /\ pc[i] # "rejected"
        /\ Returned(i) => response[i].statusCode \in {200, 400, 500}
        /\ ~Returned(i) => response[i] = NoResponse

\* ----------------------------------------------------------------------
\* Properties of the browser handler: settle delay, timeouts, call order
\* ----------------------------------------------------------------------
SelectorRequested(e) == e.waitForSelector # Absent /\ e.waitForSelector[1] # ""
\* navigation and the requested selector wait are over, successfully
NavigationDone(i) ==
    /\ Succeeded(i, "goto")
    /\ SelectorRequested(event[i]) => Succeeded(i, "waitForSelector")
\* the handler is past the settle-delay statement (it has read the final URL)
PastSettle(i) == CallIndexes(i, "url") # {}

\* C21: the handler suspends only after navigation and any selector wait, exactly
\* when the settle delay is positive and for exactly that time: 2000 ms for a
\* request without delay, the requested time for a positive delay, no wait at all
\* for delay 0.
C21_SettleDelayAsRequested ==
    \A i \in DOMAIN pc :
        event[i] # NullEvent =>
            /\ waited[i] > 0 => NavigationDone(i)
            /\ PastSettle(i) =>
                 waited[i] = IF event[i].delay = Absent THEN 2000
                             ELSE IF event[i].delay[1] > 0 THEN event[i].delay[1]
                             ELSE 0

\* the first call of the invocation that failed is op
FailedFirstAt(i, op) == Failures(i) # {} /\ calls[i][FirstFailure(i)].op = op

\* C22 as stated: when page.goto fails (navigation timeout) or the requested
\* page.waitForSelector fails, the handler returns status 500 with the url of
\* the request and the session has been closed.
C22_TimeoutsReturn500SessionClosed ==
    \A i \in DOMAIN pc :
        (Returned(i) /\ (FailedFirstAt(i, "goto") \/ FailedFirstAt(i, "waitForSelector"))) =>
            /\ response[i].statusCode = 500
            /\ response[i].url = event[i].url
            /\ ~sessions[browser[i]].open

\* C22 as amended: when page.goto fails (navigation timeout) or the requested
\* page.waitForSelector fails (its bound is 10000 ms whatever the navigation
\* timeout is), the handler returns status 500 with the url of the request, not
\* a redirected one, after one browser.close() on its session, which is closed
\* when that close resolves.
C22_TimeoutsReturn500AndClose ==
    \A i \in DOMAIN pc :
        /\ \A k \in CallIndexes(i, "waitForSelector") : calls[i][k].timeout = 10000
        /\ \A k \in CallIndexes(i, "goto") :
               calls[i][k].timeout = IF event[i].timeout \in {Absent, Some(0)} THEN 60000
                                     ELSE event[i].timeout[1]
        /\ (Returned(i) /\ (FailedFirstAt(i, "goto") \/ FailedFirstAt(i, "waitForSelector"))) =>
              /\ response[i].statusCode = 500
              /\ response[i].url = event[i].url
              /\ response[i].url # Some(RedirectedUrl)
              /\ response[i].error.step \in {"goto", "waitForSelector"}
              /\ Cardinality(CallIndexes(i, "close")) = 1
              /\ \A k \in CallIndexes(i, "close") :
                    /\ k > FirstFailure(i)
                    /\ calls[i][k].ok => ~sessions[browser[i]].open
              /\ sessions[browser[i]].owner = i
              /\ sessions[browser[i]].closeCalls = 1

\* a selector wait that times out under a 5000 ms navigation timeout
C22_Witness ==
    \E i \in DOMAIN pc :
        /\ Returned(i)
        /\ event[i].timeout = Some(5000)
        /\ FailedFirstAt(i, "waitForSelector")
        /\ response[i].statusCode = 500
        /\ ~sessions[browser[i]].open

\* the renderer calls of the invocation, in order (chromium.executablePath() is
\* not one of them), with the two extraction calls named alike
IsRendererCall(c) == c.op # "executablePath"
RendererCalls(i) == SelectSeq(calls[i], IsRendererCall)
OpName(c) == IF c.op \in {"evaluate", "content"} THEN "extraction" ELSE c.op
FixedOrder(e) ==
    <<"launch", "newPage", "setUserAgent", "setExtraHTTPHeaders", "goto">>
    \o (IF SelectorRequested(e) THEN <<"waitForSelector">> ELSE <<>>)
    \o <<"url", "extraction", "close">>
\* the calls up to and including the first one that failed (all of them if none did)
UpToFailure(s) ==
    IF \E k \in 1..Len(s) : ~s[k].ok
    THEN SubSeq(s, 1, CHOOSE k \in 1..Len(s) : ~s[k].ok /\ \A m \in 1..k - 1 : s[m].ok)
    ELSE s

\* C27 as stated: the renderer calls of an invocation are a prefix of launch,
\* newPage, setUserAgent, setExtraHTTPHeaders, goto, waitForSelector (if
\* requested), final-URL read, extraction, close.
C27_CallsArePrefixOfFixedOrder ==
    \A i \in DOMAIN pc :
        event[i] # NullEvent =>
            LET s == RendererCalls(i)
            IN /\ Len(s) <= Len(FixedOrder(event[i]))
               /\ \A k \in 1..Len(s) : OpName(s[k]) = FixedOrder(event[i])[k]

\* C27 as amended: the renderer calls of an invocation, up to the first one that fails, are
\* a prefix of launch, newPage, setUserAgent, setExtraHTTPHeaders, goto,
\* waitForSelector (if requested), final-URL read, extraction, close; after a
\* failure only the closing of the browser follows; the settle delay comes after
\* navigation and the selector wait and before the final URL is read.
C27_CallsFollowFixedOrder ==
    \A i \in DOMAIN pc :
        event[i] # NullEvent =>
            LET s == RendererCalls(i)
                p == UpToFailure(s)
                rest == SubSeq(s, Len(p) + 1, Len(s))
            IN /\ Len(p) <= Len(FixedOrder(event[i]))
               /\ \A k \in 1..Len(p) : OpName(p[k]) = FixedOrder(event[i])[k]
               /\ rest = <<>> \/ (Len(rest) = 1 /\ rest[1].op = "close")
               /\ CallIndexes(i, "goto") # {} =>
                     (Succeeded(i, "setUserAgent") /\ Succeeded(i, "setExtraHTTPHeaders"))
               /\ (PastSettle(i) \/ ExtractionCalls(i) # {}) => NavigationDone(i)
               /\ waited[i] > 0 => NavigationDone(i)
               /\ (PastSettle(i) /\ DelayOf(event[i]) > 0) => waited[i] = DelayOf(event[i])

\* a full run with a selector wait and the default settle delay
C27_Witness ==
    \E i \in DOMAIN pc :
        /\ Returned(i)
        /\ response[i].statusCode = 200
        /\ SelectorRequested(event[i])
        /\ Len(RendererCalls(i)) = 9
        /\ waited[i] = 2000

\* ----------------------------------------------------------------------
\* Properties of the response parser (ParseSpec)
\* ----------------------------------------------------------------------
Raw == notification_content[1]
Parsed == notification_content # Absent /\ gpc # "parse"

HasTriple(s) == \E k \in 1..Len(s) - 2 : s[k] = NL /\ s[k + 1] = NL /\ s[k + 2] = NL
AllBlank(s) == \A k \in 1..Len(s) : s[k] \in {" ", NL}
\* t is s without its leading and trailing whitespace
IsTrimOf(t, s) ==
    IF AllBlank(s) THEN t = <<>>
    ELSE \E i \in 1..Len(s), j \in 1..Len(s) :
           /\ i <= j
           /\ s[i] \notin {" ", NL}
           /\ s[j] \notin {" ", NL}
           /\ \A k \in 1..Len(s) : (k < i \/ k > j) => s[k] \in {" ", NL}
           /\ t = SubSeq(s, i, j)
LineBreaks(s) == {k \in 1..Len(s) : s[k] = NL}
FirstLineBreak(s) == CHOOSE k \in LineBreaks(s) : \A m \in LineBreaks(s) : k <= m

\* C6: for non-empty a and b that hold no triple line break, parsing
\* a + "\n\n\n" + b gives headline = trim(a) and description = trim(b).
C6_RoundTrip ==
    Parsed =>
        \A k \in 1..Len(Raw) :
            LET a == SubSeq(Raw, 1, k - 1)
                b == SubSeq(Raw, k + 3, Len(Raw))
            IN (/\ k + 2 <= Len(Raw)
                /\ SubSeq(Raw, k, k + 2) = <<NL, NL, NL>>
                /\ a # <<>> /\ b # <<>>
                /\ ~HasTriple(a) /\ ~HasTriple(b)) =>
                   /\ IsTrimOf(headline, a)
                   /\ IsTrimOf(description, b)

\* a = "a\n" and b = "b": the first triple line break of the text starts inside a
C6_Witness ==
    /\ gpc = "returned"
    /\ Raw = <<"a", NL, NL, NL, NL, "b">>
    /\ headline = <<"a">>
    /\ description = <<"b">>

\* C7 as stated: without a triple line break the headline is the first line and
\* the description the remainder, exactly as they stand in the text; without any
\* line break the headline is the whole text and the description is empty.
C7_DegradedSplitVerbatim ==
    (Parsed /\ ~HasTriple(Raw)) =>
        IF LineBreaks(Raw) # {}
        THEN /\ headline = SubSeq(Raw, 1, FirstLineBreak(Raw) - 1)
             /\ description = SubSeq(Raw, FirstLineBreak(Raw) + 1, Len(Raw))
        ELSE /\ headline = Raw
             /\ description = <<>>

\* C7 as amended: without a triple line break the headline is the first line
\* trimmed and the description the remainder trimmed; without any line break the
\* headline is the whole text trimmed and the description is empty; parsing a
\* string never fails, so the only failure after it is that of the publish call.
C7_DegradedSplitTrimmed ==
    /\ (Parsed /\ ~HasTriple(Raw)) =>
          IF LineBreaks(Raw) # {}
          THEN /\ IsTrimOf(headline, SubSeq(Raw, 1, FirstLineBreak(Raw) - 1))
               /\ IsTrimOf(description, SubSeq(Raw, FirstLineBreak(Raw) + 1, Len(Raw)))
          ELSE /\ IsTrimOf(headline, Raw)
               /\ description = <<>>
    /\ Parsed =>
          /\ gpc \in {"publish", "returned", "except", "raised"}
          /\ gpc = "publish" => pending = NoExc
          /\ gpc \in {"except", "raised"} => pending.msg = "sns.publish failed"

C7_Witness ==
    /\ gpc = "returned"
    /\ Raw = <<" ", "a", NL, NL, "b", " ">>
    /\ headline = <<"a">>
    /\ description = <<"b">>

\* ----------------------------------------------------------------------
\* Properties of the generation step (GenSpec)
\* ----------------------------------------------------------------------
\* the handler is past the try / except / finally statement of lines 1883-1971
GenerateFinished == gpc \in {"parse", "publish", "returned", "except", "raised"}
\* the primary strategy was started (line 1886 was reached)
PrimaryStarted == count["assistants.create"] > 0
PrimaryCalls == {"assistants.create", "threads.create", "messages.create",
                 "runs.create", "runs.retrieve", "messages.list"}
TextBearing(msgs) ==
    {k \in 1..Len(msgs) : /\ msgs[k].role = "assistant"
                          /\ msgs[k].content # <<>>
                          /\ msgs[k].content[1].type = "text"}
\* the run completed and the newest assistant text of the thread is non-empty
PrimaryProduced ==
    /\ thrown \cap PrimaryCalls = {}
    /\ run_status = "completed"
    /\ TextBearing(messages) # {}
    /\ \E k \in TextBearing(messages) :
          /\ \A m \in TextBearing(messages) : k <= m
          /\ messages[k].content[1].value # <<>>
FallbackCalls == count["chat.completions.create"]

\* C3: the fallback (one chat-completion call) is made exactly once whenever
\* the primary strategy failed (a call threw, the budget ran out, the run ended
\* in a status other than completed, the response was empty), is never made
\* when the primary strategy produced a non-empty response, and is never retried.
C3_FallbackExactlyWhenPrimaryFails ==
    /\ FallbackCalls <= 1
    /\ (GenerateFinished /\ PrimaryStarted) =>
          FallbackCalls = IF PrimaryProduced THEN 0 ELSE 1
    /\ ~PrimaryStarted => FallbackCalls = 0

\* a run that timed out on the 300000 ms budget, then one fallback call
C3_Witness ==
    /\ gpc = "returned"
    /\ max_wait_time = MaxWaitTime
    /\ primary_exc.msg = "Assistant run timed out"
    /\ run_status = "cancelling"
    /\ FallbackCalls = 1

\* C4 as stated: with a poll budget of 0 ms, once the run has been created and
\* no call of the primary strategy throws, the primary strategy times out, the
\* fallback is called exactly once and its text, when it returns one, is the
\* result of the generation step.
C4_ZeroBudgetTimesOut ==
    (/\ max_wait_time = 0
     /\ GenerateFinished
     /\ run_status # "none"
     /\ thrown \cap PrimaryCalls = {}) =>
        /\ primary_exc.msg = "Assistant run timed out"
        /\ FallbackCalls = 1
        /\ fallback_response # Absent => notification_content = fallback_response[1]

\* C4 as amended: with a poll budget of 0 ms the primary strategy times out at
\* the first budget check that finds the run non-terminal after a positive
\* elapsed time (so the loop sleeps only after a check that measured no elapsed
\* time); whenever the primary strategy timed out the fallback is called exactly
\* once and its text, when it returns one, is the result of the generation step.
C4_ZeroBudgetTimesOutOncePositive ==
    /\ (max_wait_time = 0 /\ gpc = "sleep") => now = start_time
    /\ (max_wait_time = 0 /\ gpc = "retrieve") => now = start_time + 2000
    /\ (max_wait_time = 0 /\ GenerateFinished /\ run_status \in NonTerminal
          /\ thrown \cap PrimaryCalls = {} /\ PrimaryStarted) =>
            primary_exc.msg = "Assistant run timed out"
    /\ (GenerateFinished /\ primary_exc.msg = "Assistant run timed out") =>
          /\ FallbackCalls = 1
          /\ fallback_response # Absent => notification_content = fallback_response[1]

C4_Witness ==
    /\ max_wait_time = 0
    /\ gpc = "returned"
    /\ primary_exc.msg = "Assistant run timed out"
    /\ FallbackCalls = 1
    /\ notification_content = Some(FallbackText)
    /\ result.statusCode = 200

\* C5: when the primary strategy created an assistant, its deletion is
\* attempted exactly once, before the generation step finishes, on every outcome;
\* a failing deletion changes neither the text handed on nor the exception raised.
C5_AssistantDeletedOnce ==
    /\ (GenerateFinished /\ count["assistant created"] = 1) => count["assistants.delete"] = 1
    /\ ~GenerateFinished => count["assistants.delete"] = 0
    /\ count["assistant created"] = 0 => count["assistants.delete"] = 0
    /\ count["assistant created"] <= 1
    /\ "assistants.delete" \in thrown =>
          /\ pending.msg # "assistants.delete failed"
          /\ raised.msg # "assistants.delete failed"
          /\ "chat.completions.create" \in thrown =>
                /\ gpc \in {"except", "raised"}
                /\ pending = Exc("chat.completions.create failed", primary_exc.msg)
          /\ "chat.completions.create" \notin thrown =>
                /\ gpc = "parse" => pending = NoExc
                /\ notification_content =
                      IF FallbackCalls = 0 THEN Some(PrimaryText) ELSE fallback_response[1]

\* the fallback failed after the assistant was created and its deletion failed too
C5_Witness ==
    /\ gpc = "raised"
    /\ count["assistant created"] = 1
    /\ count["assistants.delete"] = 1
    /\ "assistants.delete" \in thrown
    /\ raised.msg = "chat.completions.create failed"

\* what the message of an exception (str(e)) names as the cause of the failure
Causes(e) == {e.msg}

\* C10 as stated: when the primary strategy and the fallback both fail, the
\* handler fails with one error that reports both causes.
C10_ErrorReportsBothCauses ==
    (/\ gpc = "raised"
     /\ primary_exc # NoExc
     /\ "chat.completions.create" \in thrown) =>
        {primary_exc.msg, "chat.completions.create failed"} \subseteq Causes(raised)

\* C10 as amended: when both fail, the handler fails with the fallback's
\* exception: its message, and the error notification built from it, name the
\* fallback failure only; the primary failure is kept only as the implicit
\* context of that exception.
C10_ErrorIsFallbackFailure ==
    (/\ GenerateFinished
     /\ primary_exc # NoExc
     /\ "chat.completions.create" \in thrown) =>
        /\ gpc \in {"except", "raised"}
        /\ pending.msg = "chat.completions.create failed"
        /\ pending.context = primary_exc.msg
        /\ pending.context # ""
        /\ gpc = "raised" =>
             /\ raised = pending
             /\ Len(published) = 1
             /\ published[1].Subject = <<"Soccer News Error">>
             /\ published[1].Message = <<"Error processing soccer news: ",
                                         "chat.completions.create failed">>

C10_Witness ==
    /\ gpc = "raised"
    /\ primary_exc.msg = "Assistant run failed with status: failed"
    /\ raised.msg = "chat.completions.create failed"
    /\ raised.context = "Assistant run failed with status: failed"

\* ----------------------------------------------------------------------
\* Properties of the poll loop and of result retrieval (GenSpec)
\* ----------------------------------------------------------------------
\* time since start_time was read (right after runs.create returned)
Elapsed == now - start_time
PollStarted == run_status # "none"
TimedOutPrimary == primary_exc.msg = "Assistant run timed out"

\* each runs.retrieve is reached from the loop's 2000 ms wait, each wait from a
\* budget check, and a retrieval leads back to the check or into the fallback
OneWaitBetweenChecks ==
    /\ gpc' = "retrieve" => (gpc = "sleep" /\ now' = now + 2000)
    /\ gpc = "sleep" => gpc' = "retrieve"
    /\ gpc' = "sleep" => gpc = "poll"
    /\ gpc = "retrieve" => gpc' \in {"poll", "fallback"}

\* C15 as stated (its second part): with the 300000 ms budget and no call of
\* the primary strategy throwing, the poll loop of a run whose elapsed time
\* exceeds 300000 ms ends in the timeout and in nothing else.
C15_ElapsedBeyondBudgetTimesOut ==
    (/\ max_wait_time = 300000
     /\ PollStarted
     /\ thrown \cap PrimaryCalls = {}
     /\ gpc \in {"list", "fallback"}
     /\ Elapsed > 300000) =>
        TimedOutPrimary

\* C15 as amended: consecutive status checks are separated by one 2000 ms wait;
\* the loop waits only after a check that found the run non-terminal with at most
\* 300000 ms elapsed since polling started; a check that finds the run
\* non-terminal with more than 300000 ms elapsed raises the timeout, which is the
\* only way the loop leaves a non-terminal run when no call throws; the timeout
\* is a failure of the primary strategy only: the fallback is then called once
\* and the timeout is never the exception the handler raises.
C15_PollIntervalAndBudget ==
    /\ [][OneWaitBetweenChecks]_vars
    /\ [](max_wait_time = 300000 =>
            /\ gpc = "sleep" => (run_status \in NonTerminal /\ Elapsed <= 300000)
            /\ TimedOutPrimary => (run_status \in NonTerminal /\ Elapsed > 300000)
            /\ (PollStarted /\ run_status \in NonTerminal /\ thrown \cap PrimaryCalls = {}
                  /\ gpc \notin {"poll", "sleep", "retrieve"}) => TimedOutPrimary
            /\ (TimedOutPrimary /\ GenerateFinished) => FallbackCalls = 1
            /\ (TimedOutPrimary /\ gpc = "raised") => raised.msg # "Assistant run timed out")

\* a run still in progress after the budget, answered by the fallback
C15_Witness ==
    /\ gpc = "returned"
    /\ max_wait_time = 300000
    /\ TimedOutPrimary
    /\ run_status = "in_progress"
    /\ Elapsed > 300000
    /\ notification_content = Some(FallbackText)
    /\ result.statusCode = 200

\* messages.list returned: the run completed and control is past line 1932
Listed ==
    /\ run_status = "completed"
    /\ gpc \notin {"poll", "list"}
    /\ "messages.list" \notin thrown
\* the most recent assistant-role message with text (messages.data is newest first)
Newest == CHOOSE k \in TextBearing(messages) : \A m \in TextBearing(messages) : k <= m
NewestText == messages[Newest].content[1].value

Published == Parsed /\ Len(published) >= 1
NotificationFailed == Published /\ ~published[1].ok

\* C17: when publishing the notification fails, one error notification with the
\* subject "Soccer News Error" is attempted, then the publish failure is raised
\* to the caller; a failure of the error notification changes nothing of this.
C17_PublishFailureReportedAndReraised ==
    NotificationFailed =>
        /\ gpc \in {"except", "raised"}
        /\ pending = Exc("sns.publish failed", "")
        /\ result = NoResult
        /\ gpc = "except" => Len(published) = 1
        /\ gpc = "raised" =>
             /\ Len(published) = 2
             /\ published[2].Subject = <<"Soccer News Error">>
             /\ published[2].Message = <<"Error processing soccer news: ", "sns.publish failed">>
             /\ raised = Exc("sns.publish failed", "")

\* both the notification and the error notification fail
C17_Witness ==
    /\ gpc = "raised"
    /\ NotificationFailed
    /\ Len(published) = 2
    /\ ~published[2].ok
    /\ raised.msg = "sns.publish failed"

\* where the first triple line break of s starts
Triples(s) == {k \in 1..Len(s) - 2 : s[k] = NL /\ s[k + 1] = NL /\ s[k + 2] = NL}
FirstTriple(s) == CHOOSE k \in Triples(s) : \A m \in Triples(s) : k <= m
\* the part of the raw text the headline is cut from
HeadlinePart(s) ==
    IF HasTriple(s) THEN SubSeq(s, 1, FirstTriple(s) - 1)
    ELSE IF LineBreaks(s) # {} THEN SubSeq(s, 1, FirstLineBreak(s) - 1)
    ELSE s
Min(a, b) == IF a <= b THEN a ELSE b

\* C18: the subject passed to publish is the first 100 characters of the parsed
\* headline (at most 100 characters); the headline kept after parsing and
\* reported in the result is the whole headline.
C18_SubjectTruncatedHeadlineKept ==
    /\ Parsed => IsTrimOf(headline, HeadlinePart(Raw))
    /\ Published =>
         /\ Len(published[1].Subject) = Min(100, Len(headline))
         /\ published[1].Subject = SubSeq(headline, 1, Len(published[1].Subject))
    /\ (Parsed /\ gpc = "returned") => result.headline = headline

C18_Witness ==
    /\ gpc = "returned"
    /\ Len(headline) = 101
    /\ Len(published[1].Subject) = 100
    /\ result.headline = headline
    /\ description = <<"b">>

\* C19: the message passed to publish is the raw response without its leading
\* and trailing whitespace, with or without the separator in it.
C19_MessageIsTrimmedRaw ==
    /\ Parsed => IsTrimOf(message, Raw)
    /\ Published => published[1].Message = message

\* no separator, and whitespace inside the text is kept
C19_Witness ==
    /\ gpc = "returned"
    /\ Raw = <<" ", "a", " ", NL, "b", NL>>
    /\ published[1].Message = <<"a", " ", NL, "b">>
    /\ headline = <<"a">>
    /\ description = <<"b">>

Joined == headline \o <<NL, NL, NL>> \o description
\* the first separator of s stands between two non-whitespace characters
TightSeparator(s) ==
    /\ HasTriple(s)
    /\ FirstTriple(s) > 1
    /\ FirstTriple(s) + 3 <= Len(s)
    /\ s[FirstTriple(s) - 1] \notin {" ", NL}
    /\ s[FirstTriple(s) + 3] \notin {" ", NL}

\* C20 as stated: the message equals headline + "\n\n\n" + description.
C20_MessageIsHeadlineSeparatorDescription ==
    Parsed => message = Joined

\* C20 as amended: the message is the trimmed raw response, and it equals
\* headline + "\n\n\n" + description exactly when the response holds the separator
\* and the characters right before and right after its first occurrence are not
\* whitespace.
C20_MessageIsJoinedWhenSeparatorTight ==
    Parsed =>
        /\ IsTrimOf(message, Raw)
        /\ message = Joined <=> TightSeparator(Raw)

C20_Witness ==
    /\ gpc = "returned"
    /\ Raw = <<" ", "a", NL, NL, NL, "b">>
    /\ message = <<"a", NL, NL, NL, "b">>
    /\ message = Joined


\* ----------------------------------------------------------------------
\* Configuration, cancelling runs, execution time, empty fallback (GenSpec)
\* ----------------------------------------------------------------------
MissingConfiguration == ~environ.SNS_TOPIC_ARN \/ ~environ.OPENAI_API_KEY
ConfigurationErrors == {"SNS_TOPIC_ARN environment variable is not set",
                        "OPENAI_API_KEY environment variable is not set"}
NoGenerationAttempt ==
    /\ \A op \in DOMAIN count : count[op] = 0
    /\ thrown = {}
    /\ assistant_id = Absent
    /\ run_status = "none"
    /\ fallback_response = Absent

\* C23: if SNS_TOPIC_ARN or OPENAI_API_KEY is not set, the handler raises the
\* corresponding "... environment variable is not set" error, and no assistant,
\* thread, message or run is created and no chat-completion call is made.
C23_MissingConfigurationFailsFirst ==
    MissingConfiguration =>
        /\ NoGenerationAttempt
        /\ gpc \in {"start", "except", "raised"}
        /\ gpc = "except" => pending.msg \in ConfigurationErrors
        /\ gpc = "raised" => raised.msg \in ConfigurationErrors

C23_Witness ==
    /\ environ.SNS_TOPIC_ARN
    /\ ~environ.OPENAI_API_KEY
    /\ gpc = "raised"
    /\ raised.msg = "OPENAI_API_KEY environment variable is not set"

\* the notification handed to sns_client.publish at lines 1991-1995
Notifications == {k \in 1..Len(published) : published[k].Subject # ErrorSubject}

\* C29: the text reaching the parser (line 1973) is never None and never empty,
\* whichever strategy produced it, and no notification with an empty message is
\* published.
C29_ParserInputNeverEmpty ==
    /\ gpc = "parse" => /\ notification_content # Absent
                        /\ notification_content[1] # <<>>
    /\ \A k \in Notifications : published[k].Message # <<>>

\* C28: when the poll loop gives up after its 300000 ms budget, the time spent
\* since the invocation started is still below the function's execution
\* timeout, the timeout being longer than the budget plus the time spent
\* before polling started.
C28_AliveWhenBudgetExhausted ==
    /\ PollStarted => LambdaTimeout > MaxWaitTime + start_time
    /\ (TimedOutPrimary /\ max_wait_time = MaxWaitTime) => now < LambdaTimeout

Polling == gpc \in {"poll", "sleep", "retrieve"}
\* the budget check of line 1919 finds the run cancelling
CancellingAtCheck == gpc = "poll" /\ run_status = "cancelling"

\* leaving the check with a cancelling run: into the wait before the next
\* retrieval, or, the budget being spent, into the fallback with the timeout
CancellingKeepsPolling ==
    CancellingAtCheck =>
        \/ /\ gpc' = "sleep"
           /\ primary_exc' = primary_exc
           /\ now - start_time <= max_wait_time
        \/ /\ gpc' = "fallback"
           /\ primary_exc'.msg = TimeoutMessage
           /\ now - start_time > max_wait_time

C30_HeadlineNeverEmpty ==
    (Parsed /\ ~AllBlank(Raw)) =>
        /\ headline # <<>>
        /\ Published => published[1].Subject # <<>>


\* ----------------------------------------------------------------------
\* Two concurrent invocations (ConcSpec)
\* ----------------------------------------------------------------------
OwnSessions(i) == {h \in 1..Len(sessions) : sessions[h].owner = i}
Launches(i) == {k \in CallIndexes(i, "launch") : calls[i][k].ok}

\* what invocation i returns, from its own request and its own renderer outcomes
ResponseAlone(i) ==
    IF MissingUrl(event[i]) THEN Response400
    ELSE IF Failures(i) = {} THEN Response200(html[i], finalUrl[i])
    ELSE Response500(error[i], event[i])

\* the error an invocation holds is the one thrown by its own first failed call
OwnError(i) ==
    Failures(i) # {} =>
        LET k == FirstFailure(i)
        IN error[i] = Thrown(calls[i][k].op, k)

\* C24: in every interleaving of two invocations each one launches at most one
\* browser, the handle it holds is the one it launched, every browser has been
\* closed only by the invocation that launched it, and each invocation returns
\* the response determined by its own request and its own renderer outcomes.
C24_SessionsNeverShared ==
    \A i \in DOMAIN pc :
        event[i] # NullEvent =>
            /\ Cardinality(OwnSessions(i)) = Cardinality(Launches(i))
            /\ Cardinality(OwnSessions(i)) <= 1
            /\ browser[i] # NullBrowser => browser[i] \in OwnSessions(i)
            /\ \A h \in OwnSessions(i) :
                 sessions[h].closeCalls = Cardinality(CallIndexes(i, "close"))
            /\ OwnError(i)
            /\ Returned(i) => response[i] = ResponseAlone(i)

C24_Witness ==
    /\ pc["i1"] = "done" /\ response["i1"].statusCode = 200
    /\ pc["i2"] = "done" /\ response["i2"].statusCode = 500
    /\ Len(sessions) = 2
    /\ sessions[1].owner = "i2"
    /\ sessions[2].owner = "i1"
    /\ \A h \in 1..2 : sessions[h].closeCalls >= 1


\* ----------------------------------------------------------------------
\* The daily trigger (SchedSpec)
\* ----------------------------------------------------------------------
\* C25: the rule has SoccerNewsLambda as a target and invokes it once per day at
\* 09:00 UTC: before 09:00 of a day the function has been invoked once on each
\* earlier day, from 09:01 on once on that day too.
C25_InvokedDailyAtNine ==
    /\ fired > 0 => invoked = fired
    /\ (utc.hour < CronHour) => invoked = utc.day - 1
    /\ (utc.hour > CronHour \/ (utc.hour = CronHour /\ utc.minute > CronMinute)) =>
          invoked = utc.day

====
